---- MODULE Spec2Model ----
(***************************************************************************)
(* Uber Fare Predictor (src/main.py): a Streamlit script.  Every user      *)
(* event re-executes main() from top to bottom; the widgets keep their     *)
(* values between runs under their keys, load_model() is memoised by       *)
(* st.cache_resource, and everything else is a local of one run.           *)
(*                                                                         *)
(* Coordinates are fixed-point integers in units of 1e-4 degree            *)
(* (40.6413 is 406413); fares are in units of 1e-3 dollar.  A Python value *)
(* that may be None is a sequence: <<>> is None and <<v>> is the value v.  *)
(***************************************************************************)
EXTENDS Integers, Sequences, FiniteSets, TLC

VARIABLES
    model,      \* what st.cache_resource holds for load_model()
    widgets,    \* the widget values of the session, by widget key
    run         \* the locals and the output of the last run of main()

vars == <<model, widgets, run>>

(***************************** bounds ***************************************)
MaxAddrLen == 1
NumLandmarks == 2
NumDates == 2

(***************************** None / values ********************************)
None == <<>>
Some(v) == <<v>>
Val(x) == x[1]

(***************************** the landmark table ***************************)
Unset == "Select a location..."
CustomAddress == "Custom Address"
ManualCoordinates == "Manual Coordinates"

Landmarks ==
    { "JFK Airport", "LaGuardia Airport", "Times Square",
      "Empire State Building", "Central Park", "One World Trade Center",
      "Chrysler Building", "Brooklyn Bridge", "Grand Central Terminal" }

Options == {Unset} \cup Landmarks \cup {CustomAddress, ManualCoordinates}

\* The entries the user picks from in a session: the three sentinels and the
\* first NumLandmarks landmarks of the table.
LandmarkList ==
    << "JFK Airport", "Times Square", "LaGuardia Airport",
       "Empire State Building", "Central Park", "One World Trade Center",
       "Chrysler Building", "Brooklyn Bridge", "Grand Central Terminal" >>
Picked ==
    {Unset, CustomAddress, ManualCoordinates}
    \cup { LandmarkList[i] : i \in 1..NumLandmarks }

\* NYC_LOCATIONS: name -> None | (lat, lon) | "CUSTOM" | "MANUAL"
NYC_LOCATIONS(name) ==
    CASE name = "Select a location..."   -> [tag |-> "none",   lat |-> 0, lon |-> 0]
      [] name = "JFK Airport"            -> [tag |-> "coords", lat |-> 406413, lon |-> -737781]
      [] name = "LaGuardia Airport"      -> [tag |-> "coords", lat |-> 407769, lon |-> -738740]
      [] name = "Times Square"           -> [tag |-> "coords", lat |-> 407580, lon |-> -739855]
      [] name = "Empire State Building"  -> [tag |-> "coords", lat |-> 407488, lon |-> -739857]
      [] name = "Central Park"           -> [tag |-> "coords", lat |-> 407851, lon |-> -739683]
      [] name = "One World Trade Center" -> [tag |-> "coords", lat |-> 407127, lon |-> -740134]
      [] name = "Chrysler Building"      -> [tag |-> "coords", lat |-> 407516, lon |-> -739755]
      [] name = "Brooklyn Bridge"        -> [tag |-> "coords", lat |-> 407061, lon |-> -739969]
      [] name = "Grand Central Terminal" -> [tag |-> "coords", lat |-> 407527, lon |-> -739772]
      [] name = "Custom Address"         -> [tag |-> "CUSTOM", lat |-> 0, lon |-> 0]
      [] name = "Manual Coordinates"     -> [tag |-> "MANUAL", lat |-> 0, lon |-> 0]

(***************************** input domains *******************************)
\* Text typed into a text_input: any string; here over one character.
AddrChars == {"a"}
Addresses == UNION { [1..n -> AddrChars] : n \in 0..MaxAddrLen }

\* number_input(value=40.7128) / number_input(value=-74.0060): any float.
DefaultLat == 407128
DefaultLon == -740060
ManualLats == {DefaultLat, 950000}
ManualLons == {DefaultLon, -1850000}

MinPassengers == 1
MaxPassengers == 6
DefaultPassengers == 1
PassengerCounts == MinPassengers..MaxPassengers
PassengerChoices == {MinPassengers, MinPassengers + 1}

\* date_input / time_input: <<year, month, day>> and <<hour, minute>>.
DateList ==
    << <<2024, 3, 11>>, <<2024, 3, 17>>, <<2024, 2, 29>>, <<2023, 12, 31>>,
       <<2100, 3, 1>>, <<2000, 1, 1>> >>
Dates == { DateList[i] : i \in 1..NumDates }
Times == { <<14, 30>>, <<23, 59>> }
Now == [date |-> <<2024, 3, 11>>, time |-> <<14, 30>>]

\* What the geocoding service may answer to one geocode(address) call.
GeoPlaces == { <<407500, -739900>>, <<407600, -739700>> }
GeoOutcomes ==
    { [kind |-> "match", lat |-> p[1], lon |-> p[2]] : p \in GeoPlaces }
    \cup { [kind |-> "nomatch", lat |-> 0, lon |-> 0],
           [kind |-> "error", lat |-> 0, lon |-> 0] }
NoCall == [kind |-> "nocall", lat |-> 0, lon |-> 0]

\* What model.predict(input_data) may do: return [fare] or raise.
Fares == {23450, -1200}
PredictOutcomes ==
    { [kind |-> "fare", fare |-> f] : f \in Fares } \cup { [kind |-> "raise", fare |-> 0] }
NoPredict == [kind |-> "nocall", fare |-> 0]

\* What open("model.pkr") + pickle.load may do on the first call.
LoadOutcomes == {"loaded", "missing", "corrupt"}

(***************************** screen elements ******************************)
Elem(kind, text, data) == [kind |-> kind, text |-> text, data |-> data]

(***************************** load_model ***********************************)
\* @st.cache_resource load_model(): the first call opens and unpickles
\* "model.pkr"; the result (None included) is memoised for the process, and
\* the st.error a failing call emitted is replayed on every later call.
LoadErrors(m) ==
    CASE m = "missing" -> << Elem("error", "ModelNotFound", <<>>) >>
      [] m = "corrupt" -> << Elem("error", "ModelLoadError", <<>>) >>
      [] OTHER         -> << >>

load_model(cached, outcome) ==
    LET m == IF cached = "uncached" THEN outcome ELSE cached
    IN  [model |-> m, msgs |-> LoadErrors(m)]

\* Mutant: only the missing file counts as a failed load.
ModelIsNone_missingOnly(m) == m = "missing"

\* `if not model: return`
ModelIsNone(m) == m # "loaded"

(***************************** get_coords ***********************************)
\* Mutant: a raising lookup is tried a second time.
get_coords_retry(address, outcome) ==
    CASE outcome.kind = "match" ->
            [lat |-> Some(outcome.lat), lon |-> Some(outcome.lon),
             msgs |-> << >>, calls |-> 1]
      [] outcome.kind = "nomatch" ->
            [lat |-> None, lon |-> None, msgs |-> << >>, calls |-> 1]
      [] OTHER ->
            [lat |-> None, lon |-> None,
             msgs |-> << Elem("error", "GeocodingError", <<>>) >>, calls |-> 2]

\* Mutant: no match clears the latitude only.
get_coords_partial(address, outcome) ==
    CASE outcome.kind = "match" ->
            [lat |-> Some(outcome.lat), lon |-> Some(outcome.lon),
             msgs |-> << >>, calls |-> 1]
      [] outcome.kind = "nomatch" ->
            [lat |-> None, lon |-> Some(0), msgs |-> << >>, calls |-> 1]
      [] OTHER ->
            [lat |-> None, lon |-> None,
             msgs |-> << Elem("error", "GeocodingError", <<>>) >>, calls |-> 1]

\* One geolocator.geocode(address) call; every exception becomes
\* st.error + (None, None), no match becomes (None, None).
get_coords(address, outcome) ==
    CASE outcome.kind = "match" ->
            [lat |-> Some(outcome.lat), lon |-> Some(outcome.lon),
             msgs |-> << >>, calls |-> 1]
      [] outcome.kind = "nomatch" ->
            [lat |-> None, lon |-> None, msgs |-> << >>, calls |-> 1]
      [] OTHER ->
            [lat |-> None, lon |-> None,
             msgs |-> << Elem("error", "GeocodingError", <<>>) >>, calls |-> 1]

(***************************** location resolution **************************)
\* Mutant: the test is `is not None`, which every string passes.
Truthy_notNone(address) == TRUE

\* `if pickup_address:` -- a Python string is true iff it is not empty.
Truthy(address) == Len(address) > 0

\* Whether this run calls get_coords for a field.
NeedsGeocode(option, address) == option = CustomAddress /\ Truthy(address)

\* Mutant: the placeholder entry is not excluded.
IsLandmarkBranch_any(option) == option # ""

\* The `elif pickup_option and pickup_option != "Select a location..."` test.
IsLandmarkBranch(option) == option # "" /\ option # Unset

\* Mutant: an address the previous run found is not looked up again.
Lookup_cached(field, address, outcome) ==
    LET last == run.geocode_answers[field]
        typed == IF field = "pickup" THEN widgets.pickup_custom
                 ELSE widgets.dropoff_custom
    IN  IF last.kind = "match" /\ typed = address
        THEN [lat |-> Some(last.lat), lon |-> Some(last.lon),
              msgs |-> << >>, calls |-> 0]
        ELSE get_coords(address, outcome)

\* `pickup_lat, pickup_lon = get_coords(pickup_address)`: the lookup made
\* for a field in this run.
Lookup(field, address, outcome) == get_coords(address, outcome)

\* The display of the resolved coordinates (st.info).
CoordInfo(field, lat, lon) ==
    IF lat # None /\ lon # None
    THEN << Elem("info", field, <<lat, lon>>) >>
    ELSE << >>

\* The if / elif chain of one location column ("pickup" or "dropoff"), with
\* the widgets it renders under the keys <field>_select, <field>_custom, ...
ResolveLocation(field, option, address, lat_input, lon_input, outcome) ==
    LET base == [lat |-> None, lon |-> None, msgs |-> << >>, calls |-> 0,
                 rendered |-> {field \o "_select"}]
        r == IF option = CustomAddress
             THEN LET shown == [base EXCEPT !.rendered = @ \cup {field \o "_custom"}]
                  IN  IF Truthy(address)
                      THEN LET g == Lookup(field, address, outcome)
                           IN  [shown EXCEPT
                                  !.lat = g.lat, !.lon = g.lon, !.calls = g.calls,
                                  !.msgs = g.msgs \o
                                           (IF g.lat = None
                                            THEN << Elem("warning", field, <<>>) >>
                                            ELSE << >>)]
                      ELSE shown
             ELSE IF option = ManualCoordinates
             THEN [base EXCEPT
                     !.lat = Some(lat_input), !.lon = Some(lon_input),
                     !.rendered = @ \cup {field \o "_lat_input", field \o "_lon_input"}]
             ELSE IF IsLandmarkBranch(option)
             THEN [base EXCEPT
                     !.lat = Some(NYC_LOCATIONS(option).lat),
                     !.lon = Some(NYC_LOCATIONS(option).lon)]
             ELSE base
    IN  [r EXCEPT !.msgs = @ \o CoordInfo(field, r.lat, r.lon)]

(***************************** date and time ********************************)
IsLeap(y) == y % 4 = 0 /\ (y % 100 # 0 \/ y % 400 = 0)

DaysInMonth(y, m) ==
    IF m = 2 THEN (IF IsLeap(y) THEN 29 ELSE 28)
    ELSE IF m \in {4, 6, 9, 11} THEN 30 ELSE 31

RECURSIVE DaysBeforeMonth(_, _)
DaysBeforeMonth(y, m) ==
    IF m = 1 THEN 0 ELSE DaysBeforeMonth(y, m - 1) + DaysInMonth(y, m - 1)

DaysBeforeYear(y) ==
    (y - 1) * 365 + ((y - 1) \div 4) - ((y - 1) \div 100) + ((y - 1) \div 400)

\* date.toordinal(): 0001-01-01 is day 1.
ToOrdinal(d) == DaysBeforeYear(d[1]) + DaysBeforeMonth(d[1], d[2]) + d[3]

\* datetime.combine(ride_date, ride_time)
Combine(d, t) == [date |-> d, time |-> t]

\* ride_datetime.hour
Hour(dt) == dt.time[1]

\* ride_datetime.weekday(): Monday is 0, Sunday is 6.
Weekday(dt) == (ToOrdinal(dt.date) + 6) % 7

(***************************** fare estimation ******************************)
\* The column order of the DataFrame handed to model.predict.
FeatureColumns ==
    << "pickup_longitude", "pickup_latitude", "dropoff_longitude",
       "dropoff_latitude", "passenger_count", "hour", "day_of_week" >>

\* Mutant: latitude before longitude, as the resolver yields them.
InputData_latFirst(pickup_lat, pickup_lon, dropoff_lat, dropoff_lon, n, hour, day_of_week) ==
    << pickup_lat, pickup_lon, dropoff_lat, dropoff_lon,
       Some(n), Some(hour), Some(day_of_week) >>

\* pd.DataFrame({...}): one row, its cells in column order.  A cell is
\* <<v>>, or <<>> for a None that pandas turns into NaN.
InputData(pickup_lat, pickup_lon, dropoff_lat, dropoff_lon, n, hour, day_of_week) ==
    << pickup_lon, pickup_lat, dropoff_lon, dropoff_lat,
       Some(n), Some(hour), Some(day_of_week) >>

\* Mutant: `and` for `or`.
Incomplete_both(pickup_lat, pickup_lon, dropoff_lat, dropoff_lon) ==
    pickup_lat = None /\ dropoff_lat = None

\* Mutant: the dropoff is not tested.
Incomplete_pickupOnly(pickup_lat, pickup_lon, dropoff_lat, dropoff_lon) ==
    pickup_lat = None

\* `if pickup_lat is None or dropoff_lat is None`
Incomplete(pickup_lat, pickup_lon, dropoff_lat, dropoff_lon) ==
    pickup_lat = None \/ dropoff_lat = None

\* f"{fare:.2f}": thousandths of a dollar rounded to cents, ties to even.
Format2(f) ==
    LET q == f \div 10
        r == f % 10
    IN  IF r > 5 \/ (r = 5 /\ q % 2 = 1) THEN q + 1 ELSE q

\* Mutant: a raising predictor is answered with a fare of zero.
Predict_fallback(input_data, outcome) ==
    [calls |-> 1, arg |-> input_data,
     msgs |-> << Elem("fare", "Estimated Fare",
                      << Some(IF outcome.kind = "fare" THEN Format2(outcome.fare) ELSE 0) >>) >>]

\* model.predict(input_data) and what is shown for it (the try / except).
Predict(input_data, outcome) ==
    IF outcome.kind = "fare"
    THEN [calls |-> 1, arg |-> input_data,
          msgs |-> << Elem("fare", "Estimated Fare", << Some(Format2(outcome.fare)) >>) >>]
    ELSE [calls |-> 1, arg |-> input_data,
          msgs |-> << Elem("error", "PredictionFailed", <<>>),
                      Elem("write", "Debug info - Input Data:", <<>>),
                      Elem("write", "input_data", input_data) >>]

\* The body of `if st.button("Estimate Fare")`.
Estimate(pickup_lat, pickup_lon, dropoff_lat, dropoff_lon, ride_date, ride_time, n, outcome) ==
    IF Incomplete(pickup_lat, pickup_lon, dropoff_lat, dropoff_lon)
    THEN [calls |-> 0, arg |-> None, input_data |-> None,
          msgs |-> << Elem("error", "IncompleteInput", <<>>) >>]
    ELSE LET ride_datetime == Combine(ride_date, ride_time)
             input_data == InputData(pickup_lat, pickup_lon, dropoff_lat, dropoff_lon,
                                     n, Hour(ride_datetime), Weekday(ride_datetime))
             p == Predict(input_data, outcome)
         IN  [calls |-> p.calls, arg |-> p.arg, input_data |-> input_data,
              msgs |-> p.msgs]

(***************************** main() ***************************************)
Header == << Elem("title", "Uber Fare Predictor", <<>>),
             Elem("markdown", "intro", <<>>) >>

\* The locals and output of a run that has not happened / returned early.
EmptyRun ==
    [screen |-> << >>, rendered |-> {}, completed |-> FALSE, clicked |-> FALSE,
     pickup_lat |-> None, pickup_lon |-> None,
     dropoff_lat |-> None, dropoff_lon |-> None,
     geocode_calls |-> [pickup |-> 0, dropoff |-> 0],
     geocode_answers |-> [pickup |-> NoCall, dropoff |-> NoCall],
     predict_calls |-> 0, predict_arg |-> None, predict_answer |-> NoPredict,
     input_data |-> None]

\* One execution of main(): m is load_model()'s answer, w the widget values,
\* clicked what st.button returns, gp / gd / pr what the geocoder (for pickup
\* and dropoff) and the predictor do if they are called.
Main(m, w, clicked, gp, gd, pr) ==
    IF ModelIsNone(m.model)
    THEN [EmptyRun EXCEPT !.screen = Header \o m.msgs]
    ELSE LET p == ResolveLocation("pickup", w.pickup_select, w.pickup_custom,
                                  w.pickup_lat_input, w.pickup_lon_input, gp)
             d == ResolveLocation("dropoff", w.dropoff_select, w.dropoff_custom,
                                  w.dropoff_lat_input, w.dropoff_lon_input, gd)
             e == IF clicked
                  THEN Estimate(p.lat, p.lon, d.lat, d.lon,
                                w.ride_date, w.ride_time, w.passengers, pr)
                  ELSE [calls |-> 0, arg |-> None, input_data |-> None, msgs |-> << >>]
         IN  [screen |-> Header \o m.msgs \o p.msgs \o d.msgs \o e.msgs,
              rendered |-> p.rendered \cup d.rendered
                           \cup {"ride_date", "ride_time", "passengers", "estimate"},
              completed |-> TRUE, clicked |-> clicked,
              pickup_lat |-> p.lat, pickup_lon |-> p.lon,
              dropoff_lat |-> d.lat, dropoff_lon |-> d.lon,
              geocode_calls |-> [pickup |-> p.calls, dropoff |-> d.calls],
              geocode_answers |-> [pickup |-> gp, dropoff |-> gd],
              predict_calls |-> e.calls, predict_arg |-> e.arg,
              predict_answer |-> pr, input_data |-> e.input_data]

(***************************** the session **********************************)
DefaultWidgets ==
    [pickup_select |-> Unset, pickup_custom |-> << >>,
     pickup_lat_input |-> DefaultLat, pickup_lon_input |-> DefaultLon,
     dropoff_select |-> Unset, dropoff_custom |-> << >>,
     dropoff_lat_input |-> DefaultLat, dropoff_lon_input |-> DefaultLon,
     ride_date |-> Now.date, ride_time |-> Now.time,
     passengers |-> DefaultPassengers]

\* The widgets a location column keeps only while it shows them: a keyed
\* widget that a run does not render loses its value.
Transient ==
    {"pickup_custom", "pickup_lat_input", "pickup_lon_input",
     "dropoff_custom", "dropoff_lat_input", "dropoff_lon_input"}

Cleanup(w, rendered) ==
    [k \in DOMAIN w |->
        IF k \in Transient /\ k \notin rendered THEN DefaultWidgets[k] ELSE w[k]]

\* The outcomes the collaborators can have in a run over widget values w.
GeoChoices(option, address) ==
    IF NeedsGeocode(option, address) THEN GeoOutcomes ELSE {NoCall}

PredictChoices(clicked) == IF clicked THEN PredictOutcomes ELSE {NoPredict}

Init ==
    /\ model = "uncached"
    /\ widgets = DefaultWidgets
    /\ run = EmptyRun

\* A rerun of the script after event ev left the widget values w.
Rerun(w, clicked, lo) ==
    \E gp \in GeoChoices(w.pickup_select, w.pickup_custom),
       gd \in GeoChoices(w.dropoff_select, w.dropoff_custom),
       pr \in PredictChoices(clicked) :
         LET m == load_model(model, lo)
             r == Main(m, w, clicked, gp, gd, pr)
         IN  /\ model' = m.model
             /\ run' = r
             /\ widgets' = Cleanup(w, r.rendered)

\* The browser opens the page: the first run, which loads the model; the
\* date and time widgets start at datetime.now().
OpenPage ==
    /\ model = "uncached"
    /\ \E lo \in LoadOutcomes : Rerun(widgets, FALSE, lo)

\* The user asks for a rerun (reload) without touching a widget.
Reload ==
    /\ model # "uncached"
    /\ Rerun(widgets, FALSE, model)

\* The user can set widget k to v: the last run showed k, and v is new.
CanChange(k, v) == k \in run.rendered /\ widgets[k] # v

\* The user changes one widget; Streamlit reruns the script.
SelectPickup ==
    \E o \in Picked :
        /\ CanChange("pickup_select", o)
        /\ Rerun([widgets EXCEPT !.pickup_select = o], FALSE, model)

SelectDropoff ==
    \E o \in Picked :
        /\ CanChange("dropoff_select", o)
        /\ Rerun([widgets EXCEPT !.dropoff_select = o], FALSE, model)

TypePickupAddress ==
    \E a \in Addresses :
        /\ CanChange("pickup_custom", a)
        /\ Rerun([widgets EXCEPT !.pickup_custom = a], FALSE, model)

TypeDropoffAddress ==
    \E a \in Addresses :
        /\ CanChange("dropoff_custom", a)
        /\ Rerun([widgets EXCEPT !.dropoff_custom = a], FALSE, model)

SetPickupLat ==
    \E v \in ManualLats :
        /\ CanChange("pickup_lat_input", v)
        /\ Rerun([widgets EXCEPT !.pickup_lat_input = v], FALSE, model)

SetPickupLon ==
    \E v \in ManualLons :
        /\ CanChange("pickup_lon_input", v)
        /\ Rerun([widgets EXCEPT !.pickup_lon_input = v], FALSE, model)

SetDropoffLat ==
    \E v \in ManualLats :
        /\ CanChange("dropoff_lat_input", v)
        /\ Rerun([widgets EXCEPT !.dropoff_lat_input = v], FALSE, model)

SetDropoffLon ==
    \E v \in ManualLons :
        /\ CanChange("dropoff_lon_input", v)
        /\ Rerun([widgets EXCEPT !.dropoff_lon_input = v], FALSE, model)

SetDate ==
    \E d \in Dates :
        /\ CanChange("ride_date", d)
        /\ Rerun([widgets EXCEPT !.ride_date = d], FALSE, model)

SetTime ==
    \E t \in Times :
        /\ CanChange("ride_time", t)
        /\ Rerun([widgets EXCEPT !.ride_time = t], FALSE, model)

SetPassengers ==
    \E n \in PassengerChoices :
        /\ CanChange("passengers", n)
        /\ Rerun([widgets EXCEPT !.passengers = n], FALSE, model)

\* The user clicks "Estimate Fare": st.button returns True in this run only.
ClickEstimate ==
    /\ "estimate" \in run.rendered
    /\ Rerun(widgets, TRUE, model)

Next ==
    \/ OpenPage
    \/ Reload
    \/ SelectPickup
    \/ SelectDropoff
    \/ TypePickupAddress
    \/ TypeDropoffAddress
    \/ SetPickupLat
    \/ SetPickupLon
    \/ SetDropoffLat
    \/ SetDropoffLon
    \/ SetDate
    \/ SetTime
    \/ SetPassengers
    \/ ClickEstimate

Spec == Init /\ [][Next]_vars

(***************************** the whole selector ***************************)
\* A session in which the user only walks through the two selectors, over
\* every entry of NYC_LOCATIONS.
PickPickup ==
    \E o \in Options :
        /\ CanChange("pickup_select", o)
        /\ Rerun([widgets EXCEPT !.pickup_select = o], FALSE, model)

PickDropoff ==
    \E o \in Options :
        /\ CanChange("dropoff_select", o)
        /\ Rerun([widgets EXCEPT !.dropoff_select = o], FALSE, model)

NextSelect ==
    \/ OpenPage
    \/ Reload
    \/ PickPickup
    \/ PickDropoff

SpecSelect == Init /\ [][NextSelect]_vars

(***************************** vocabulary of the properties *****************)
Fields == {"pickup", "dropoff"}
Option(f) == IF f = "pickup" THEN widgets.pickup_select ELSE widgets.dropoff_select
Address(f) == IF f = "pickup" THEN widgets.pickup_custom ELSE widgets.dropoff_custom
LatInput(f) == IF f = "pickup" THEN widgets.pickup_lat_input ELSE widgets.dropoff_lat_input
LonInput(f) == IF f = "pickup" THEN widgets.pickup_lon_input ELSE widgets.dropoff_lon_input
Lat(f) == IF f = "pickup" THEN run.pickup_lat ELSE run.dropoff_lat
Lon(f) == IF f = "pickup" THEN run.pickup_lon ELSE run.dropoff_lon
Other(f) == IF f = "pickup" THEN "dropoff" ELSE "pickup"

Unresolved(f) == Lat(f) = None \/ Lon(f) = None
Resolved(f) == Lat(f) # None /\ Lon(f) # None

Shows(e) == \E i \in DOMAIN run.screen : run.screen[i] = e
ShowsKind(k) == \E i \in DOMAIN run.screen : run.screen[i].kind = k
Count(e) == Cardinality({ i \in DOMAIN run.screen : run.screen[i] = e })
LastShown == run.screen[Len(run.screen)]

IncompleteInput == Elem("error", "IncompleteInput", <<>>)
PredictionFailed == Elem("error", "PredictionFailed", <<>>)
Warning(f) == Elem("warning", f, <<>>)

LoadFailed == model \in {"missing", "corrupt"}

(***************************** C1 *******************************************)
\* C1: a run in which "Estimate Fare" fired while the pickup or the dropoff
\* coordinate (either component of it) is unresolved ends with the
\* IncompleteInput error, shows no fare, and never calls model.predict --
\* whatever the two selection modes are.
C1_IncompleteInputBlocksPredict ==
    (run.clicked /\ (Unresolved("pickup") \/ Unresolved("dropoff")))
        => /\ LastShown = IncompleteInput
           /\ Count(IncompleteInput) = 1
           /\ ~ShowsKind("fare")
           /\ run.predict_calls = 0
           /\ run.predict_arg = None

\* The trigger fired with the pickup address not found by the geocoder and
\* the dropoff entered by hand.
C1_Witness ==
    /\ run.clicked
    /\ widgets.pickup_select = CustomAddress
    /\ run.geocode_answers.pickup.kind = "nomatch"
    /\ widgets.dropoff_select = ManualCoordinates
    /\ Resolved("dropoff")
    /\ LastShown = IncompleteInput

(***************************** C2 *******************************************)
\* What the user gets besides the page heading (title and caption, written
\* before load_model is called).
Output == SubSeq(run.screen, Len(Header) + 1, Len(run.screen))

UserInput ==
    \/ SelectPickup \/ SelectDropoff
    \/ TypePickupAddress \/ TypeDropoffAddress
    \/ SetPickupLat \/ SetPickupLon \/ SetDropoffLat \/ SetDropoffLon
    \/ SetDate \/ SetTime \/ SetPassengers
    \/ ClickEstimate

Blocked ==
    /\ run.rendered = {}
    /\ ~run.completed
    /\ ~run.clicked
    /\ \A f \in Fields : Lat(f) = None /\ Lon(f) = None
    /\ run.geocode_calls = [pickup |-> 0, dropoff |-> 0]
    /\ run.predict_calls = 0
    /\ Output = LoadErrors(model)
    /\ Len(Output) = 1 /\ Output[1].kind = "error"
    /\ ~ENABLED UserInput

\* C2: once loading the model artifact has failed (file missing or any other
\* error), it has failed for the rest of the session, and every run shows no
\* estimate UI: no widget, no resolved location, no geocoder call, no trigger
\* processed, no predictor call; the output is the one load error.
C2_LoadFailureBlocks ==
    /\ [](LoadFailed => Blocked)
    /\ [][LoadFailed => (LoadFailed' /\ model' = model)]_vars

\* A reload of a session whose model file could not be unpickled.
C2_Witness ==
    /\ model = "corrupt"
    /\ Output = << Elem("error", "ModelLoadError", <<>>) >>
    /\ run.rendered = {}

(***************************** C3 *******************************************)
\* The weekday of the dates of DateList by the calendar, Monday = 0.
CalendarWeekday(d) ==
    CASE d = <<2024, 3, 11>>  -> 0
      [] d = <<2024, 3, 17>>  -> 6
      [] d = <<2024, 2, 29>>  -> 3
      [] d = <<2023, 12, 31>> -> 6
      [] d = <<2100, 3, 1>>   -> 0
      [] d = <<2000, 1, 1>>   -> 5

\* C3: whenever both coordinates are resolved and the trigger fires, the
\* predictor is called with the row [pickup longitude, pickup latitude,
\* dropoff longitude, dropoff latitude, passenger count, hour of day,
\* weekday (Monday = 0 .. Sunday = 6)] over the columns in that order.
C3_FeatureRow ==
    (run.clicked /\ Resolved("pickup") /\ Resolved("dropoff"))
        => /\ run.predict_calls = 1
           /\ Len(FeatureColumns) = 7
           /\ run.predict_arg =
                << run.pickup_lon, run.pickup_lat,
                   run.dropoff_lon, run.dropoff_lat,
                   Some(widgets.passengers),
                   Some(widgets.ride_time[1]),
                   Some(CalendarWeekday(widgets.ride_date)) >>
           /\ Val(run.predict_arg[6]) \in 0..23
           /\ Val(run.predict_arg[7]) \in 0..6

\* pickup (40.75, -73.99), dropoff (40.76, -73.97), 2 passengers,
\* 2024-03-11 (a Monday) 14:30.
C3_Witness ==
    /\ run.predict_calls = 1
    /\ run.predict_arg =
         << Some(-739900), Some(407500), Some(-739700), Some(407600),
            Some(2), Some(14), Some(0) >>

(***************************** C4 *******************************************)
GeocodeFailed(f) ==
    /\ run.completed
    /\ Option(f) = CustomAddress
    /\ Truthy(Address(f))
    /\ run.geocode_answers[f].kind \in {"nomatch", "error"}

\* What a field resolves to when its geocoder lookup is left aside.
ExpectedOther(f) ==
    CASE Option(f) = ManualCoordinates -> <<Some(LatInput(f)), Some(LonInput(f))>>
      [] Option(f) \in Landmarks ->
             <<Some(NYC_LOCATIONS(Option(f)).lat), Some(NYC_LOCATIONS(Option(f)).lon)>>
      [] Option(f) = CustomAddress /\ run.geocode_answers[f].kind = "match" ->
             <<Some(run.geocode_answers[f].lat), Some(run.geocode_answers[f].lon)>>
      [] OTHER -> <<None, None>>

\* C4: in custom-address mode with a non-empty address, a lookup that finds
\* nothing or raises leaves the field unresolved, shows the warning of that
\* field once, is made once (no retry), and does not stop the run: the other
\* field is resolved as usual, the remaining widgets are shown, and a trigger
\* in that run is answered (with IncompleteInput).
C4_GeocodeFailureRecoverable ==
    \A f \in Fields :
        GeocodeFailed(f)
            => /\ Lat(f) = None /\ Lon(f) = None
               /\ Count(Warning(f)) = 1
               /\ run.geocode_calls[f] = 1
               /\ <<Lat(Other(f)), Lon(Other(f))>> = ExpectedOther(Other(f))
               /\ {"pickup_select", "dropoff_select", "ride_date", "ride_time",
                   "passengers", "estimate"} \subseteq run.rendered
               /\ run.clicked => LastShown = IncompleteInput

\* The geocoder raised for the pickup address while the dropoff is a landmark.
C4_Witness ==
    /\ GeocodeFailed("pickup")
    /\ run.geocode_answers.pickup.kind = "error"
    /\ Shows(Elem("error", "GeocodingError", <<>>))
    /\ Shows(Warning("pickup"))
    /\ widgets.dropoff_select = "Times Square"
    /\ Resolved("dropoff")

(***************************** C5 *******************************************)
\* C5: in custom-address mode with the empty string as address, the pickup
\* and the dropoff field alike resolve to nothing and the geocoder is not
\* called for the field in that run.
C5_EmptyAddressNoLookup ==
    \A f \in Fields :
        (run.completed /\ Option(f) = CustomAddress /\ Address(f) = << >>)
            => /\ Lat(f) = None /\ Lon(f) = None
               /\ run.geocode_calls[f] = 0
               /\ ~Shows(Warning(f))

\* Both fields on "Custom Address" with nothing typed.
C5_Witness ==
    /\ run.completed
    /\ \A f \in Fields : Option(f) = CustomAddress /\ Address(f) = << >>
    /\ run.geocode_calls = [pickup |-> 0, dropoff |-> 0]

(***************************** C6 *******************************************)
PredictorRaised ==
    /\ run.clicked
    /\ Resolved("pickup") /\ Resolved("dropoff")
    /\ run.predict_answer.kind = "raise"

\* C6: when the trigger fires with both coordinates resolved and
\* model.predict raises, the run reports PredictionFailed followed by the
\* very row that was passed to the predictor, shows no fare, and has called
\* the predictor exactly once.
C6_PredictionFailed ==
    PredictorRaised
        => /\ run.predict_calls = 1
           /\ run.predict_arg # None
           /\ Count(PredictionFailed) = 1
           /\ LastShown = Elem("write", "input_data", run.predict_arg)
           /\ ~ShowsKind("fare")
           /\ ~Shows(IncompleteInput)

\* The predictor raised on a ride between two landmarks.
C6_Witness ==
    /\ PredictorRaised
    /\ widgets.pickup_select = "JFK Airport"
    /\ widgets.dropoff_select = "Times Square"
    /\ Shows(PredictionFailed)

(***************************** C7 *******************************************)
Sentinels == {Unset, CustomAddress, ManualCoordinates}

\* C7: a field set to a landmark of the table always resolves to that
\* landmark's (latitude, longitude) without a geocoder call; no sentinel entry
\* is a landmark or resolves through the table; the unset entry resolves to
\* nothing.
C7_LandmarksFixed ==
    /\ Sentinels \cap Landmarks = {}
    /\ \A o \in Options : (NYC_LOCATIONS(o).tag = "coords") <=> (o \in Landmarks)
    /\ run.completed =>
         \A f \in Fields :
            /\ Option(f) \in Landmarks =>
                  /\ Lat(f) = Some(NYC_LOCATIONS(Option(f)).lat)
                  /\ Lon(f) = Some(NYC_LOCATIONS(Option(f)).lon)
                  /\ Val(Lat(f)) > 0 /\ Val(Lon(f)) < 0
                  /\ run.geocode_calls[f] = 0
            /\ Option(f) = Unset => Lat(f) = None /\ Lon(f) = None
            /\ Option(f) = CustomAddress /\ ~Truthy(Address(f)) =>
                  Lat(f) = None /\ Lon(f) = None
            /\ Option(f) = ManualCoordinates =>
                  Lat(f) = Some(LatInput(f)) /\ Lon(f) = Some(LonInput(f))

\* The last landmark of the table as pickup, nothing chosen as dropoff.
C7_Witness ==
    /\ run.completed
    /\ widgets.pickup_select = "Grand Central Terminal"
    /\ run.pickup_lat = Some(407527) /\ run.pickup_lon = Some(-739772)
    /\ widgets.dropoff_select = Unset
    /\ run.dropoff_lat = None

(***************************** C8 *******************************************)
\* C8: after every run, in every selection mode and for every answer of the
\* geocoder, the latitude and the longitude of a field are both present or
\* both absent.
C8_NoPartialCoordinate ==
    \A f \in Fields : (Lat(f) = None) <=> (Lon(f) = None)

\* One field found by the geocoder, the geocoder raising for the other.
C8_Witness ==
    /\ run.completed
    /\ run.geocode_answers.pickup.kind = "match"
    /\ Resolved("pickup")
    /\ run.geocode_answers.dropoff.kind = "error"
    /\ run.dropoff_lat = None /\ run.dropoff_lon = None

(***************************** C9 *******************************************)
\* Plausible geographic bounds: latitude in [-90, 90], longitude in [-180, 180].
InBounds(lat, lon) ==
    /\ lat # None /\ Val(lat) \in -900000..900000
    /\ lon # None /\ Val(lon) \in -1800000..1800000

Estimated == run.predict_calls > 0 \/ ShowsKind("fare")

\* C9 as stated: an estimate is produced only when both coordinates are
\* present and within the geographic bounds, in every selection mode.
C9_EstimateOnlyIfValid ==
    Estimated => \A f \in Fields : InBounds(Lat(f), Lon(f))

\* C9 as the code has it: an estimate is produced only when both coordinates
\* are present (latitude and longitude not None); a landmark coordinate is
\* within the bounds, a manually entered one is passed on as typed.
C9_EstimateOnlyIfPresent ==
    Estimated =>
        \A f \in Fields :
            /\ Resolved(f)
            /\ Option(f) \in Landmarks => InBounds(Lat(f), Lon(f))
            /\ Option(f) = ManualCoordinates =>
                  Lat(f) = Some(LatInput(f)) /\ Lon(f) = Some(LonInput(f))

\* A fare shown for a pickup typed in as latitude 95.
C9_Witness ==
    /\ ShowsKind("fare")
    /\ widgets.pickup_select = ManualCoordinates
    /\ run.pickup_lat = Some(950000)
    /\ ~InBounds(run.pickup_lat, run.pickup_lon)
    /\ Resolved("dropoff")

(***************************** C10 ******************************************)
\* C10: nothing is cached between runs.  Every run of the form makes exactly
\* one geocoder call for each field that is in custom-address mode with a
\* non-empty address, and none for any other field, whatever event caused
\* the run; the field's coordinate, and the one in the row given to the
\* predictor, is the answer of this run's call.
C10_LookupEveryRun ==
    run.completed =>
        \A f \in Fields :
            IF NeedsGeocode(Option(f), Address(f))
            THEN /\ run.geocode_calls[f] = 1
                 /\ run.geocode_answers[f].kind # "nocall"
                 /\ <<Lat(f), Lon(f)>> = ExpectedOther(f)
                 /\ (f = "pickup" /\ run.predict_calls > 0) =>
                        /\ run.predict_arg[1] = Some(run.geocode_answers[f].lon)
                        /\ run.predict_arg[2] = Some(run.geocode_answers[f].lat)
                 /\ (f = "dropoff" /\ run.predict_calls > 0) =>
                        /\ run.predict_arg[3] = Some(run.geocode_answers[f].lon)
                        /\ run.predict_arg[4] = Some(run.geocode_answers[f].lat)
            ELSE run.geocode_calls[f] = 0

\* The click on "Estimate Fare" looked the typed pickup address up again.
C10_Witness ==
    /\ run.clicked
    /\ NeedsGeocode(widgets.pickup_select, widgets.pickup_custom)
    /\ run.geocode_calls.pickup = 1
    /\ run.geocode_answers.pickup.kind = "match"
    /\ run.predict_calls = 1

\* Refuted by TLC (an address found in one run is not found in the next,
\* the field's widgets untouched): a resolved address does not stay resolved.
ResolvedAddressStaysResolved ==
    [][\A f \in Fields :
          (/\ NeedsGeocode(Option(f), Address(f)) /\ Resolved(f)
           /\ Option(f)' = Option(f) /\ Address(f)' = Address(f))
              => Resolved(f)']_vars

====
